---- MODULE Spec2Model ----
(***************************************************************************)
(* A model of the i3x client: the Transport (src/i3x/_transport.py), the   *)
(* SSE stream reader (src/i3x/_sse.py) and the SubscriptionManager         *)
(* (src/i3x/_subscription.py).                                             *)
(*                                                                         *)
(* SpecTransport drives one Transport from one calling thread.             *)
(* Spec drives one SubscriptionManager from one calling thread while the   *)
(* reader threads it started run concurrently.                             *)
(* SpecReader drives one SSEStream directly through start() and stop().    *)
(***************************************************************************)
EXTENDS Integers, Sequences, FiniteSets, TLC

VARIABLES
    client,     \* Transport._client: 0 is None, k > 0 the k-th httpx.Client made
    made,       \* number of httpx.Client objects constructed so far
    last,       \* outcome of the calling thread's last Transport call
    wire,       \* the chunks the server sends on a subscription stream
    readers,    \* the SSEStream objects constructed so far
    threads,    \* the threading.Thread objects started so far
    streams,    \* SubscriptionManager._streams, in insertion order
    caller,     \* where the calling thread is inside a registry or reader call
    lastCall,   \* the calling thread's last registry or reader call
    hook,       \* how Client.on_value_change behaves: "none" is None
    manager,    \* Client._sub_manager is not None
    workers,    \* other threads calling into the Transport or the registry
    parse       \* a payload handed to a parser of models.py, and its result

vars == <<client, made, last, wire, readers, threads, streams, caller, lastCall,
          hook, manager, workers, parse>>

transportVars == <<client, made, last>>
readerVars == <<wire, readers, threads, streams, caller, lastCall>>
clientVars == <<hook, manager, workers, parse>>

NoParse == [payload |-> "none", record |-> "none", done |-> FALSE]

(***************************************************************************)
(* Bounds of the model.                                                    *)
(***************************************************************************)
MaxClients == 2
MaxReaders == 2

(***************************************************************************)
(* Transport: error mapping.                                               *)
(***************************************************************************)

\* Status codes a server can put on the wire (three digits), chosen around
\* every boundary of the mapping.
Codes == {200, 204, 302, 399, 400, 401, 402, 403, 404, 405, 422, 499,
          500, 503, 599, 600, 999}

\* What the network answers to a request that was sent.
Replies ==
    {[net |-> n, status |-> 0, body |-> "none"] :
        n \in {"connect_error", "timeout", "http_error"}}
    \cup {[net |-> "response", status |-> c, body |-> b] :
            c \in Codes, b \in {"json", "badjson", "text"}}

NoError == [cls |-> "none", status |-> 0, msg |-> "none"]

Error(cls, status, msg) == [cls |-> cls, status |-> status, msg |-> msg]

\* errors.ConnectionError("Transport is not connected. Call open() first.")
NotConnected == Error("ConnectionError", 0, "not connected")

\* _STATUS_MAP.get(status_code): "none" is the None of a missing key.
STATUS_MAP(c) ==
    CASE c = 401 -> "AuthenticationError"
      [] c = 403 -> "AuthenticationError"
      [] c = 404 -> "NotFoundError"
      [] OTHER -> "none"

\* The mutant of check_status_class: the 5xx test bounded above.
check_status_class_5xx_only(c) ==
    IF STATUS_MAP(c) # "none" THEN STATUS_MAP(c)
    ELSE IF c >= 500 /\ c <= 599 THEN "ServerError" ELSE "I3XError"

\* The error class _check_status picks for a status code >= 400.
check_status_class(c) ==
    IF STATUS_MAP(c) # "none" THEN STATUS_MAP(c)
    ELSE IF c >= 500 THEN "ServerError" ELSE "I3XError"

\* Transport._check_status(response).  `read` says whether the response body
\* has been read: response.json() and response.text both raise
\* httpx.ResponseNotRead on a streaming response that was not read, and the
\* second one is raised from inside the except clause, so it escapes.
check_status(c, read) ==
    IF c < 400 THEN NoError
    ELSE IF read THEN Error(check_status_class(c), c, "http")
    ELSE Error("ResponseNotRead", 0, "raw")

\* The outcome of one Transport call as its caller sees it.
Outcome(err, sent, value) == [err |-> err, sent |-> sent, value |-> value]

\* The mutant of ensure_open: the guard is missing.
ensure_open_unguarded(c) == NoError

\* Transport._ensure_open(): the error it raises, if any.
ensure_open(c) == IF c = 0 THEN NotConnected ELSE NoError

\* Transport._request(client, method, path): the request is sent and `reply`
\* is what comes back.
request(reply) ==
    CASE reply.net = "connect_error" ->
            Outcome(Error("ConnectionError", 0, "connect"), TRUE, "none")
      [] reply.net = "timeout" ->
            Outcome(Error("TimeoutError", 0, "timeout"), TRUE, "none")
      [] reply.net = "http_error" ->
            Outcome(Error("I3XError", 0, "http_error"), TRUE, "none")
      [] OTHER ->
            LET err == check_status(reply.status, TRUE) IN
            IF err # NoError THEN Outcome(err, TRUE, "none")
            ELSE IF reply.status = 204 THEN Outcome(NoError, TRUE, "None")
            ELSE IF reply.body = "json" THEN Outcome(NoError, TRUE, "json")
            ELSE IF reply.body = "badjson"
                 THEN Outcome(Error("JSONDecodeError", 0, "raw"), TRUE, "none")
            ELSE Outcome(NoError, TRUE, "text")

\* Transport.get / post / put / delete: _ensure_open, then _request.
call(c, reply) ==
    IF ensure_open(c) # NoError
    THEN Outcome(ensure_open(c), FALSE, "none")
    ELSE request(reply)

\* The mutant of stream_get: httpx.TimeoutException is not caught.
stream_get_timeout_raw(c, reply) ==
    IF ensure_open(c) # NoError
    THEN Outcome(ensure_open(c), FALSE, "none")
    ELSE CASE reply.net = "connect_error" ->
                Outcome(Error("ConnectionError", 0, "connect"), TRUE, "none")
           [] reply.net = "timeout" ->
                Outcome(Error("TimeoutException", 0, "raw"), TRUE, "none")
           [] reply.net = "http_error" ->
                Outcome(Error("HTTPError", 0, "raw"), TRUE, "none")
           [] OTHER ->
                LET err == check_status(reply.status, FALSE) IN
                IF err # NoError THEN Outcome(err, TRUE, "none")
                ELSE Outcome(NoError, TRUE, "response")

\* Transport.stream_get(path): _ensure_open, send with stream=True, then
\* _check_status on the unread response.  Only ConnectError and
\* TimeoutException are mapped; any other exception escapes as it is.
stream_get(c, reply) ==
    IF ensure_open(c) # NoError
    THEN Outcome(ensure_open(c), FALSE, "none")
    ELSE CASE reply.net = "connect_error" ->
                Outcome(Error("ConnectionError", 0, "connect"), TRUE, "none")
           [] reply.net = "timeout" ->
                Outcome(Error("TimeoutError", 0, "timeout"), TRUE, "none")
           [] reply.net = "http_error" ->
                Outcome(Error("HTTPError", 0, "raw"), TRUE, "none")
           [] OTHER ->
                LET err == check_status(reply.status, FALSE) IN
                IF err # NoError THEN Outcome(err, TRUE, "none")
                ELSE Outcome(NoError, TRUE, "response")

\* The response `client.send(..., stream=True)` returned to stream_get, as
\* stream_get leaves it: there is none when _ensure_open or send raised;
\* otherwise it is open, for stream_get has no response.close(), neither
\* before `return response` nor on the path where _check_status raises.
stream_get_handle(c, reply) ==
    IF ensure_open(c) # NoError \/ reply.net # "response" THEN "none"
    ELSE "open"

(***************************************************************************)
(* Transport: the calls of the calling thread.                             *)
(***************************************************************************)

NoReply == [net |-> "none", status |-> 0, body |-> "none"]

\* The record of one call: `open0` is is_open when the call was made,
\* `reply` what the network answered if the call sent a request, and
\* `handle` the streaming response the call got from client.send(), as the
\* call left it ("none" when it got none).
Call(op, open0, reply, out) ==
    [op |-> op, open0 |-> open0, reply |-> IF out.sent THEN reply ELSE NoReply,
     err |-> out.err, sent |-> out.sent, value |-> out.value,
     handle |-> "none"]

NoCall == Call("none", FALSE, NoReply, Outcome(NoError, FALSE, "none"))

Methods == {"get", "post", "put", "delete"}

\* The mutant of open_failed: the probe's exception is re-raised without
\* closing the client first.
open_failed_no_rollback(c) == c

\* Transport.open(), the except branch: self.close() before the re-raise.
open_failed(c) == 0

\* The mutant of open_reraise: every probe failure is raised as a
\* ConnectionError.
open_reraise_wrapped(err) ==
    IF err = NoError THEN NoError ELSE Error("ConnectionError", 0, "connect")

\* Transport.open(), the except branch: `raise` re-raises what the probe
\* raised.
open_reraise(err) == err

\* The mutant of already_open: open() does not look at self._client.
already_open_unchecked(c) == FALSE

\* Transport.open(), the test `self._client is not None`.
already_open(c) == c # 0

\* Transport.open(): a no-op when open; otherwise a new httpx.Client and the
\* probe self.get("/namespaces"), rolled back when the probe raises.
transport_open(reply) ==
    IF already_open(client)
    THEN /\ last' = Call("open", TRUE, reply, Outcome(NoError, FALSE, "none"))
         /\ UNCHANGED <<client, made>>
    ELSE /\ made < MaxClients
         /\ made' = made + 1
         /\ LET probe == call(made + 1, reply) IN
            /\ last' = Call("open", client # 0, reply,
                            [probe EXCEPT !.err = open_reraise(@)])
            /\ client' = IF probe.err # NoError
                         THEN open_failed(made + 1)
                         ELSE made + 1

open(reply) ==
    /\ transport_open(reply)
    /\ UNCHANGED readerVars
    /\ UNCHANGED clientVars

\* The mutant of close_client: close() leaves self._client in place.
close_client_kept(c) == c

\* Transport.close(): self._client.close() if there is one, and
\* self._client = None.
close_client(c) == 0

\* Transport.close()
transport_close ==
    /\ client' = close_client(client)
    /\ last' = Call("close", client # 0, NoReply, Outcome(NoError, FALSE, "none"))
    /\ UNCHANGED <<made>>

close ==
    /\ transport_close
    /\ UNCHANGED readerVars
    /\ UNCHANGED clientVars

\* Transport.get / post / put / delete called by the calling thread.
Request(m, reply) ==
    /\ last' = Call(m, client # 0, reply, call(client, reply))
    /\ UNCHANGED <<client, made>>
    /\ UNCHANGED readerVars
    /\ UNCHANGED clientVars

\* Transport.stream_get called by the calling thread.
StreamGet(reply) ==
    /\ last' = [Call("stream_get", client # 0, reply, stream_get(client, reply))
                    EXCEPT !.handle = stream_get_handle(client, reply)]
    /\ UNCHANGED <<client, made>>
    /\ UNCHANGED readerVars
    /\ UNCHANGED clientVars

InitReaderIdle ==
    /\ wire = <<>>
    /\ readers = <<>>
    /\ threads = <<>>
    /\ streams = <<>>
    /\ caller = [pc |-> "idle", r |-> 0, todo |-> <<>>]
    /\ lastCall = [op |-> "none", sid |-> "none", rep |-> FALSE, tracked |-> {}]
    /\ hook = "ok"
    /\ manager = FALSE
    /\ workers = <<>>
    /\ parse = NoParse

InitTransport ==
    /\ client = 0
    /\ made = 0
    /\ last = NoCall
    /\ InitReaderIdle

NextTransport ==
    \/ \E reply \in Replies : open(reply)
    \/ close
    \/ \E m \in Methods, reply \in Replies : Request(m, reply)
    \/ \E reply \in Replies : StreamGet(reply)

SpecTransport == InitTransport /\ [][NextTransport]_vars

(***************************************************************************)
(* The push protocol: text as a sequence of tokens.                        *)
(*   "N"  a newline              "D"  the five characters data:            *)
(*   "S"  a space                "C"  the text of a comment line           *)
(*   "a", "b"  the text of a JSON object {"a": {"data": [..]}} (one key)   *)
(*   "ab" the text of a JSON object with the two keys "a" and "b"          *)
(*   "ab1", "ab2"  the first and the second part of the text "ab", cut     *)
(*        inside a string literal                                          *)
(*   "x"  text that is not JSON                                            *)
(*   "{}"  the text of the JSON object with no key                         *)
(*   "[a,{},ab]", "[b,a]"  the texts of JSON arrays of those objects       *)
(*   "5"  the text of a JSON number                                        *)
(*   "{a:5}"  the text of a JSON object whose value for "a" is a number    *)
(*   "[a,5,b]"  the text of a JSON array whose second element is a number  *)
(***************************************************************************)

\* The JSON objects of the model, and the element ids (keys) of each.
Objects == {"a", "b", "ab"}

Keys(obj) ==
    IF obj = "ab" THEN <<"a", "b">>
    ELSE IF obj = "{}" THEN <<>>
    ELSE IF obj = "{a:5}" THEN <<"a">>
    ELSE <<obj>>

\* The other JSON values of the model: the dicts json.loads can return
\* besides Objects, the lists and their elements, and a number.
Dicts == Objects \cup {"{}", "{a:5}"}

Lists == {"[a,{},ab]", "[b,a]", "[a,5,b]"}

Items(list) ==
    CASE list = "[a,{},ab]" -> <<"a", "{}", "ab">>
      [] list = "[b,a]" -> <<"b", "a">>
      [] OTHER -> <<"a", "5", "b">>

Values == Dicts \cup Lists \cup {"5"}

\* "\n\n" in buffer
HasSep(buf) == \E i \in 1..(Len(buf) - 1) : buf[i] = "N" /\ buf[i + 1] = "N"

\* The index of the first "\n\n" of a buffer that has one.
SepAt(buf) ==
    CHOOSE i \in 1..(Len(buf) - 1) :
        /\ buf[i] = "N" /\ buf[i + 1] = "N"
        /\ \A j \in 1..(i - 1) : ~(buf[j] = "N" /\ buf[j + 1] = "N")

\* event_text, buffer = buffer.split("\n\n", 1)
SplitHead(buf) == SubSeq(buf, 1, SepAt(buf) - 1)
SplitRest(buf) == SubSeq(buf, SepAt(buf) + 2, Len(buf))

\* text.split("\n")
RECURSIVE SplitLines(_)
SplitLines(text) ==
    IF \A i \in 1..Len(text) : text[i] # "N" THEN <<text>>
    ELSE LET i == CHOOSE k \in 1..Len(text) :
                    text[k] = "N" /\ \A j \in 1..(k - 1) : text[j] # "N"
         IN <<SubSeq(text, 1, i - 1)>> \o SplitLines(SubSeq(text, i + 1, Len(text)))

\* str.strip(): leading and trailing white space removed.
RECURSIVE strip(_)
strip(text) ==
    IF text # <<>> /\ Head(text) \in {"S", "N"} THEN strip(Tail(text))
    ELSE IF text # <<>> /\ text[Len(text)] \in {"S", "N"}
         THEN strip(SubSeq(text, 1, Len(text) - 1))
    ELSE text

\* line.startswith(prefix)
startswith(line, prefix) ==
    Len(line) >= Len(prefix) /\ SubSeq(line, 1, Len(prefix)) = prefix

\* The data_lines of _process_event_text, line by line.
RECURSIVE DataLines(_)
DataLines(lines) ==
    IF lines = <<>> THEN <<>>
    ELSE LET line == Head(lines) IN
         (IF startswith(line, <<"D">>) THEN <<strip(Tail(line))>>
          ELSE IF startswith(line, <<"D", "S">>) THEN <<Tail(Tail(line))>>
          ELSE <<>>) \o DataLines(Tail(lines))

\* "\n".join(data_lines)
RECURSIVE join(_)
join(lines) ==
    IF lines = <<>> THEN <<>>
    ELSE IF Len(lines) = 1 THEN lines[1]
    ELSE lines[1] \o <<"N">> \o join(Tail(lines))

\* json.loads(text): white space around the document is insignificant; the
\* text is a document iff what is left is the text of one JSON value.
json_loads(text) ==
    LET doc == strip(text) IN
    IF Len(doc) = 1 /\ doc[1] \in Values
    THEN [ok |-> TRUE, value |-> doc[1]]
    ELSE IF doc = <<"ab1", "ab2">>
    THEN [ok |-> TRUE, value |-> "ab"]
    ELSE [ok |-> FALSE, value |-> "none"]

\* ValueChange.from_stream_event(event_data): one change per element id, in
\* the order of the keys; `of` names the payload the change was made from.
from_stream_event(obj) ==
    [i \in 1..Len(Keys(obj)) |-> [id |-> Keys(obj)[i], of |-> obj]]

\* Whether from_stream_event(event_data) raises AttributeError: event_data
\* has no items() when it is not a dict, and a value of it has no get()
\* when it is not a dict.  Nothing is returned then.
from_stream_event_raises(event_data) ==
    event_data \notin Dicts \/ event_data = "{a:5}"

Hooks == {"none", "ok", "raises"}

\* The mutant of handle_value_changes: the callback is not wrapped in
\* try/except, so its first exception ends the loop and propagates.
handle_value_changes_unguarded(changes, hk) ==
    IF hk = "none" THEN [called |-> <<>>, raised |-> FALSE]
    ELSE IF hk = "raises" THEN [called |-> <<Head(changes)>>, raised |-> TRUE]
    ELSE [called |-> changes, raised |-> FALSE]

\* The mutant of handle_value_changes: the batch is walked backwards.
handle_value_changes_reversed(changes, hk) ==
    IF hk = "none" THEN [called |-> <<>>, raised |-> FALSE]
    ELSE [called |-> [i \in 1..Len(changes) |-> changes[Len(changes) + 1 - i]],
          raised |-> FALSE]

\* Client._handle_value_changes(changes): the records on_value_change is
\* called with, in order, and whether an exception leaves the method.  An
\* exception of the callback is caught and logged for each record.
handle_value_changes(changes, hk) ==
    IF hk = "none" THEN [called |-> <<>>, raised |-> FALSE]
    ELSE [called |-> changes, raised |-> FALSE]

\* The mutant of for_items: an empty list of changes is handed to on_event
\* too.
RECURSIVE for_items_unguarded(_)
for_items_unguarded(items) ==
    IF items = <<>> THEN [batches |-> <<>>, raised |-> FALSE]
    ELSE IF from_stream_event_raises(Head(items))
    THEN [batches |-> <<>>, raised |-> TRUE]
    ELSE [for_items_unguarded(Tail(items)) EXCEPT
              !.batches = <<from_stream_event(Head(items))>> \o @]

\* `changes = ValueChange.from_stream_event(item); if changes:
\* self._on_event(changes)` for each item in turn (the items of a list, or
\* the one dict): the batches handed to on_event, in order, and whether
\* from_stream_event raised after them.
RECURSIVE for_items(_)
for_items(items) ==
    IF items = <<>> THEN [batches |-> <<>>, raised |-> FALSE]
    ELSE IF from_stream_event_raises(Head(items))
    THEN [batches |-> <<>>, raised |-> TRUE]
    ELSE LET changes == from_stream_event(Head(items)) IN
         [for_items(Tail(items)) EXCEPT
              !.batches = IF changes # <<>> THEN <<changes>> \o @ ELSE @]

\* The mutant of process_event_text: a frame that is not JSON raises
\* instead of being skipped.
process_event_text_raises(event_text) ==
    LET data_lines == DataLines(SplitLines(event_text)) IN
    IF data_lines = <<>> THEN [batches |-> <<>>, raised |-> FALSE]
    ELSE LET parsed == json_loads(join(data_lines)) IN
         IF ~parsed.ok THEN [batches |-> <<>>, raised |-> TRUE]
         ELSE IF parsed.value \in Lists THEN for_items(Items(parsed.value))
         ELSE IF parsed.value \in Dicts THEN for_items(<<parsed.value>>)
         ELSE [batches |-> <<>>, raised |-> FALSE]

\* SSEStream._process_event_text(event_text): the batches it hands to
\* on_event, in order, and whether it raised.
process_event_text(event_text) ==
    LET data_lines == DataLines(SplitLines(event_text)) IN
    IF data_lines = <<>> THEN [batches |-> <<>>, raised |-> FALSE]
    ELSE LET parsed == json_loads(join(data_lines)) IN
         IF ~parsed.ok THEN [batches |-> <<>>, raised |-> FALSE]
         ELSE IF parsed.value \in Lists THEN for_items(Items(parsed.value))
         ELSE IF parsed.value \in Dicts THEN for_items(<<parsed.value>>)
         ELSE [batches |-> <<>>, raised |-> FALSE]

(***************************************************************************)
(* SSEStream: the reader object and its background thread.                 *)
(***************************************************************************)

Sids == {"s1", "s2"}

\* The streams a server sends, as the chunks iter_text() yields.
\* The first is one chunk: a comment line, a frame that is not JSON and two
\* valid frames.  The second is a frame that is not JSON and, in a later
\* chunk, a valid frame.
Wires ==
    { << <<"C", "N", "D", "x", "N", "N",
           "D", "S", "a", "N", "N", "D", "b", "N", "N">> >>,
      << <<"D", "x", "N", "N">>, <<"D", "S", "a", "N", "N">> >> }

\* What the network answers when a reader opens its stream.
StreamReplies ==
    {r \in Replies : \/ r.net = "connect_error"
                     \/ r.net = "response" /\ r.status \in {200, 404}
                                           /\ r.body = "text"}

\* SSEStream.__init__
NewReader(sid) == [sid |-> sid, stop |-> FALSE, thread |-> 0, returned |-> FALSE]

\* threading.Thread(target=self._run).start() for reader r.  `frames` are
\* the event texts it has taken off its buffer, `delivered` the batches it
\* has handed to on_event, `errs` its on_error calls, `late` whether it
\* called on_event after a stop() of its reader had returned, `cause` the
\* way _run ended, `dispatched` the records on_value_change was called
\* with, and `fault` whether the frame being processed raises once the
\* batches in `todo` are handed over.
NewThread(r) ==
    [reader |-> r, pc |-> "open", pos |-> 0, buf |-> <<>>, todo |-> <<>>,
     resp |-> "none", frames |-> <<>>, delivered |-> <<>>, errs |-> 0,
     late |-> FALSE, cause |-> "none", dispatched |-> <<>>,
     fault |-> FALSE]

\* self._on_event(changes): the thread enters Client._handle_value_changes.
OnEvent(th, changes, after) ==
    [th EXCEPT !.pc = "sink",
               !.delivered = Append(@, changes),
               !.dispatched = @ \o handle_value_changes(changes, hook).called,
               !.late = @ \/ after]

\* The mutant of buffer_append: the buffer is replaced by the chunk.
buffer_append_replaces(buffer, chunk) == chunk

\* buffer += chunk
buffer_append(buffer, chunk) == buffer \o chunk

Alive(t) == threads[t].pc # "exited"

\* SSEStream.is_running
is_running(r) == readers[r].thread # 0 /\ Alive(readers[r].thread)

\* The mutant of response_close: the finally clause is missing.
response_close_skipped(resp) == resp

\* finally: response.close(), for the response _run holds, if any.
response_close(resp) == IF resp = "open" THEN "closed" ELSE resp

\* The mutant of Exit: on_error is never called.
Exit_silent(th, report, cause) ==
    [th EXCEPT !.pc = "exited",
               !.cause = cause,
               !.resp = response_close(@)]

\* The exit of _run: response.close() in the finally clause when there is a
\* response, on_error first when `report`.
Exit(th, report, cause) ==
    [th EXCEPT !.pc = "exited",
               !.cause = cause,
               !.errs = IF report THEN @ + 1 ELSE @,
               !.resp = response_close(@)]

\* The while loop of _read_events from a buffer on: frames are split off
\* and processed until on_event is called (the thread is then inside the
\* callback, `after` saying whether stop() had returned by then), a frame
\* raises, or no frame is left and the thread goes back to iter_text().
RECURSIVE Drain(_, _, _)
Drain(th, stopSet, after) ==
    IF ~HasSep(th.buf) THEN [th EXCEPT !.pc = "read"]
    ELSE LET event_text == SplitHead(th.buf)
             done == process_event_text(event_text)
             next == [th EXCEPT !.buf = SplitRest(th.buf),
                                !.frames = Append(@, event_text)]
         IN IF done.batches # <<>>
            THEN OnEvent([next EXCEPT !.todo = Tail(done.batches),
                                      !.fault = done.raised],
                         Head(done.batches), after)
            ELSE IF done.raised THEN Exit(next, ~stopSet, "decode")
            ELSE Drain(next, stopSet, after)

\* _run, first half: stream_get; on failure on_error and return.
run_open(t, reply) ==
    /\ t \in 1..Len(threads)
    /\ threads[t].pc = "open"
    /\ LET out == stream_get(client, reply) IN
       threads' = [threads EXCEPT ![t] =
            IF out.err # NoError THEN Exit(@, TRUE, "open")
            ELSE [@ EXCEPT !.pc = "read", !.resp = "open"]]
    /\ UNCHANGED <<wire, readers, streams, caller, lastCall>>
    /\ UNCHANGED transportVars
    /\ UNCHANGED clientVars

\* _read_events: iter_text() yields the next chunk; return if the stop
\* event is set, else append it and run the while loop.
read_chunk(t) ==
    /\ t \in 1..Len(threads)
    /\ threads[t].pc = "read"
    /\ threads[t].pos < Len(wire)
    /\ LET th == threads[t]
           rd == readers[th.reader]
           got == [th EXCEPT !.pos = @ + 1]
       IN threads' = [threads EXCEPT ![t] =
            IF rd.stop THEN Exit(got, FALSE, "stop")
            ELSE Drain([got EXCEPT !.buf = buffer_append(@, wire[th.pos + 1])],
                       rd.stop, rd.returned)]
    /\ UNCHANGED <<wire, readers, streams, caller, lastCall>>
    /\ UNCHANGED transportVars
    /\ UNCHANGED clientVars

\* _read_events: the server ends the stream, iter_text() is exhausted.
read_end(t) ==
    /\ t \in 1..Len(threads)
    /\ threads[t].pc = "read"
    /\ threads[t].pos = Len(wire)
    /\ threads' = [threads EXCEPT ![t] = Exit(@, FALSE, "end")]
    /\ UNCHANGED <<wire, readers, streams, caller, lastCall>>
    /\ UNCHANGED transportVars
    /\ UNCHANGED clientVars

\* The mutant of read_fail: the failing thread also closes the Transport.
read_fail_closes(t) ==
    /\ t \in 1..Len(threads)
    /\ threads[t].pc = "read"
    /\ threads' = [threads EXCEPT ![t] = Exit(@, ~readers[@.reader].stop, "read")]
    /\ client' = 0
    /\ UNCHANGED <<wire, readers, streams, caller, lastCall, made, last>>
    /\ UNCHANGED clientVars

\* _read_events: iter_text() raises (the connection dropped); _run reports
\* it unless the stop event is set.
read_fail(t) ==
    /\ t \in 1..Len(threads)
    /\ threads[t].pc = "read"
    /\ threads' = [threads EXCEPT ![t] = Exit(@, ~readers[@.reader].stop, "read")]
    /\ UNCHANGED <<wire, readers, streams, caller, lastCall>>
    /\ UNCHANGED transportVars
    /\ UNCHANGED clientVars

\* on_event returns: the next batch of the same frame, or the while loop;
\* or it raises, and _run reports that unless the stop event is set.
on_event_returned(th, rd) ==
    IF handle_value_changes(th.delivered[Len(th.delivered)], hook).raised
    THEN Exit(th, ~rd.stop, "sink")
    ELSE IF th.todo # <<>>
    THEN OnEvent([th EXCEPT !.todo = Tail(@)], Head(th.todo), rd.returned)
    ELSE IF th.fault THEN Exit(th, ~rd.stop, "decode")
    ELSE Drain(th, rd.stop, rd.returned)

sink_return(t) ==
    /\ t \in 1..Len(threads)
    /\ threads[t].pc = "sink"
    /\ threads' = [threads EXCEPT ![t] =
            on_event_returned(threads[t], readers[threads[t].reader])]
    /\ UNCHANGED <<wire, readers, streams, caller, lastCall>>
    /\ UNCHANGED transportVars
    /\ UNCHANGED clientVars

(***************************************************************************)
(* SSEStream.start / stop and the SubscriptionManager, as called by the    *)
(* calling thread.  stop() blocks in join(timeout=5.0): the calling thread *)
(* waits at pc "join" until the thread has exited or the timeout elapses.  *)
(***************************************************************************)
MaxThreads == 2

Idle == [pc |-> "idle", r |-> 0, todo |-> <<>>]

CallOf(op, sid, tracked) ==
    [op |-> op, sid |-> sid, rep |-> lastCall.op = op /\ lastCall.sid = sid,
     tracked |-> tracked]

\* SSEStream.start() on reader r: nothing if it is running, else the stop
\* event is cleared and a new thread is started.
start(rdrs, thrs, r) ==
    IF rdrs[r].thread # 0 /\ thrs[rdrs[r].thread].pc # "exited"
    THEN [readers |-> rdrs, threads |-> thrs]
    ELSE [readers |-> [rdrs EXCEPT ![r].stop = FALSE,
                                   ![r].thread = Len(thrs) + 1,
                                   ![r].returned = FALSE],
          threads |-> Append(thrs, NewThread(r))]

\* The mutant of stop_set: stop() leaves the stop event cleared for reuse.
stop_set_cleared(rd) == [rd EXCEPT !.stop = FALSE]

\* SSEStream.stop(), first statement: self._stop_event.set()
stop_set(rd) == [rd EXCEPT !.stop = TRUE]

\* The mutant of stop_joined: the thread handle is kept after the join.
stop_joined_keeps_thread(rd) == [rd EXCEPT !.returned = TRUE]

\* SSEStream.stop(), after the join: self._thread = None, and stop() returns.
stop_joined(rd) == [rd EXCEPT !.thread = 0, !.returned = TRUE]

\* stop() on each reader of rs in turn, up to the first join that blocks.
RECURSIVE StopFrom(_, _)
StopFrom(rdrs, rs) ==
    IF rs = <<>> THEN [readers |-> rdrs, caller |-> Idle]
    ELSE LET r == Head(rs)
             set == [rdrs EXCEPT ![r] = stop_set(@)]
         IN IF set[r].thread # 0
            THEN [readers |-> set,
                  caller |-> [pc |-> "join", r |-> r, todo |-> Tail(rs)]]
            ELSE StopFrom([set EXCEPT ![r].returned = TRUE], Tail(rs))

HasEntry(strs, sid) == \E i \in 1..Len(strs) : strs[i].sid = sid

EntryOf(strs, sid) == CHOOSE i \in 1..Len(strs) : strs[i].sid = sid

\* The mutant of Without: every entry goes, not only that of the id.
Without_clears(strs, sid) == <<>>

Without(strs, sid) == SelectSeq(strs, LAMBDA e : e.sid # sid)

Tracked == {streams[i].reader : i \in 1..Len(streams)}

\* The mutant of add_present: add() does not look for an existing entry.
add_present_unchecked(sid) == FALSE

\* SubscriptionManager.add, the test `subscription_id in self._streams`.
add_present(sid) == HasEntry(streams, sid)

\* SubscriptionManager.add(subscription_id)
add(sid) ==
    /\ caller.pc = "idle"
    /\ lastCall' = CallOf("add", sid, {})
    /\ IF add_present(sid)
       THEN UNCHANGED <<readers, threads, streams>>
       ELSE /\ Len(readers) < MaxReaders
            /\ LET r == Len(readers) + 1
                   started == start(Append(readers, NewReader(sid)), threads, r)
               IN /\ streams' = Append(Without(streams, sid),
                                       [sid |-> sid, reader |-> r])
                  /\ readers' = started.readers
                  /\ threads' = started.threads
    /\ UNCHANGED <<wire, caller>>
    /\ UNCHANGED transportVars
    /\ UNCHANGED clientVars

\* SubscriptionManager.remove(subscription_id)
remove(sid) ==
    /\ caller.pc = "idle"
    /\ streams' = Without(streams, sid)
    /\ LET rs == IF HasEntry(streams, sid)
                 THEN <<streams[EntryOf(streams, sid)].reader>>
                 ELSE <<>>
           res == StopFrom(readers, rs)
       IN /\ readers' = res.readers
          /\ caller' = res.caller
          /\ lastCall' = CallOf("remove", sid, {})
    /\ UNCHANGED <<wire, threads>>
    /\ UNCHANGED transportVars
    /\ UNCHANGED clientVars

\* The mutant of stop_all_clear: the map is not cleared.
stop_all_clear_missing(strs) == strs

\* SubscriptionManager.stop_all, last statement: self._streams.clear()
stop_all_clear(strs) == <<>>

\* SubscriptionManager.stop_all()
stop_all ==
    /\ caller.pc = "idle"
    /\ LET rs == [i \in 1..Len(streams) |-> streams[i].reader]
           res == StopFrom(readers, rs)
       IN /\ readers' = res.readers
          /\ caller' = res.caller
          /\ streams' = IF res.caller.pc = "idle"
                        THEN stop_all_clear(streams) ELSE streams
    /\ lastCall' = CallOf("stop_all", "none", Tracked)
    /\ UNCHANGED <<wire, threads>>
    /\ UNCHANGED transportVars
    /\ UNCHANGED clientVars

\* The join of stop() returns: self._thread = None, then whatever is left
\* of the call that made it.
join_return ==
    LET res == StopFrom([readers EXCEPT ![caller.r] = stop_joined(@)],
                        caller.todo)
    IN /\ readers' = res.readers
       /\ caller' = res.caller
       /\ streams' = IF res.caller.pc = "idle" /\ lastCall.op = "stop_all"
                     THEN stop_all_clear(streams) ELSE streams
       /\ UNCHANGED <<wire, threads, lastCall>>
       /\ UNCHANGED transportVars
       /\ UNCHANGED clientVars

\* self._thread.join(timeout=5.0) returns because the thread has exited.
join_exited ==
    /\ caller.pc = "join"
    /\ ~Alive(readers[caller.r].thread)
    /\ join_return

\* The mutant of join_timeout: join() without a timeout.
join_unbounded ==
    /\ FALSE
    /\ UNCHANGED vars

\* self._thread.join(timeout=5.0) returns because 5.0 seconds have elapsed
\* with the thread still alive.
join_timeout ==
    /\ caller.pc = "join"
    /\ Alive(readers[caller.r].thread)
    /\ join_return

\* SSEStream.start() called on reader r directly.
Start(r) ==
    /\ caller.pc = "idle"
    /\ r \in 1..Len(readers)
    /\ is_running(r) \/ Len(threads) < MaxThreads
    /\ LET started == start(readers, threads, r)
       IN /\ readers' = started.readers
          /\ threads' = started.threads
    /\ lastCall' = CallOf("start", readers[r].sid, {r})
    /\ UNCHANGED <<wire, streams, caller>>
    /\ UNCHANGED transportVars
    /\ UNCHANGED clientVars

\* SSEStream.stop() called on reader r directly.
Stop(r) ==
    /\ caller.pc = "idle"
    /\ r \in 1..Len(readers)
    /\ LET res == StopFrom(readers, <<r>>)
       IN /\ readers' = res.readers
          /\ caller' = res.caller
    /\ lastCall' = CallOf("stop", readers[r].sid, {r})
    /\ UNCHANGED <<wire, streams, threads>>
    /\ UNCHANGED transportVars
    /\ UNCHANGED clientVars

NoRegistryCall == [op |-> "none", sid |-> "none", rep |-> FALSE, tracked |-> {}]

\* A SubscriptionManager just constructed over an open Transport.
Init ==
    /\ client = 1
    /\ made = 1
    /\ last = NoCall
    /\ wire \in Wires
    /\ readers = <<>>
    /\ threads = <<>>
    /\ streams = <<>>
    /\ caller = Idle
    /\ lastCall = NoRegistryCall
    /\ hook = "ok"
    /\ manager = TRUE
    /\ workers = <<>>
    /\ parse = NoParse

Next ==
    \/ \E sid \in Sids : add(sid)
    \/ \E sid \in Sids : remove(sid)
    \/ stop_all
    \/ join_exited
    \/ join_timeout
    \/ \E t \in 1..Len(threads), reply \in StreamReplies : run_open(t, reply)
    \/ \E t \in 1..Len(threads) : read_chunk(t)
    \/ \E t \in 1..Len(threads) : read_end(t)
    \/ \E t \in 1..Len(threads) : read_fail(t)
    \/ \E t \in 1..Len(threads) : sink_return(t)

Spec == Init /\ [][Next]_vars


\* The same SubscriptionManager over a stream of one frame.
InitRegistry ==
    /\ client = 1
    /\ made = 1
    /\ last = NoCall
    /\ wire = << <<"D", "a", "N", "N">> >>
    /\ readers = <<>>
    /\ threads = <<>>
    /\ streams = <<>>
    /\ caller = Idle
    /\ lastCall = NoRegistryCall
    /\ hook = "ok"
    /\ manager = TRUE
    /\ workers = <<>>
    /\ parse = NoParse

SpecRegistry == InitRegistry /\ [][Next]_vars

\* One SSEStream just constructed over an open Transport, not started.
InitReader ==
    /\ client = 1
    /\ made = 1
    /\ last = NoCall
    /\ wire \in Wires
    /\ readers = <<NewReader("s1")>>
    /\ threads = <<>>
    /\ streams = <<>>
    /\ caller = Idle
    /\ lastCall = NoRegistryCall
    /\ hook = "ok"
    /\ manager = TRUE
    /\ workers = <<>>
    /\ parse = NoParse

NextReader ==
    \/ Start(1)
    \/ Stop(1)
    \/ join_exited
    \/ join_timeout
    \/ \E t \in 1..Len(threads), reply \in StreamReplies : run_open(t, reply)
    \/ \E t \in 1..Len(threads) : read_chunk(t)
    \/ \E t \in 1..Len(threads) : read_end(t)
    \/ \E t \in 1..Len(threads) : read_fail(t)
    \/ \E t \in 1..Len(threads) : sink_return(t)

SpecReader == InitReader /\ [][NextReader]_vars

\* SpecReader with the one scheduling guarantee stop() relies on: a join
\* with a timeout returns, when the thread exits or when the timeout elapses.
LiveSpecReader == SpecReader /\ WF_vars(join_exited) /\ WF_vars(join_timeout)

(***************************************************************************)
(* The decode loop on its own: one reader whose stream is open and whose   *)
(* stop event stays clear reads a text that the server cut into chunks.    *)
(***************************************************************************)
MaxChunks == 3

Texts ==
    { <<"D", "S", "a", "N", "N", "D", "b", "N", "N">>,
      <<"D", "ab1", "ab2", "N", "N", "N", "D", "x", "N", "N", "D", "a", "N", "N">>,
      <<"C", "N", "D", "ab", "N", "N", "D", "b", "N", "D", "S", "N", "N", "D", "b">> }

\* The chunks of a text cut after the positions in `cuts`.
ChunksAt(text, cuts) ==
    LET marks == cuts \cup {0, Len(text)}
        mark(i) == CHOOSE m \in marks : Cardinality({x \in marks : x < m}) = i
    IN [i \in 1..(Cardinality(marks) - 1) |->
            SubSeq(text, mark(i - 1) + 1, mark(i))]

\* What iter_text() can yield for a text: it in at most MaxChunks pieces,
\* cut anywhere, or one character at a time.
Chunkings(text) ==
    { ChunksAt(text, cuts) :
        cuts \in { c \in SUBSET (1..(Len(text) - 1)) :
                      Cardinality(c) < MaxChunks \/ c = 1..(Len(text) - 1) } }

\* The thread of a reader after start() and a successful stream_get.
Reading(r) == [NewThread(r) EXCEPT !.pc = "read", !.resp = "open"]

InitFraming ==
    /\ client = 1
    /\ made = 1
    /\ last = NoCall
    /\ wire \in UNION { Chunkings(text) : text \in Texts }
    /\ readers = <<[NewReader("s1") EXCEPT !.thread = 1]>>
    /\ threads = <<Reading(1)>>
    /\ streams = <<[sid |-> "s1", reader |-> 1]>>
    /\ caller = Idle
    /\ lastCall = NoRegistryCall
    /\ hook \in Hooks
    /\ manager = TRUE
    /\ workers = <<>>
    /\ parse = NoParse

NextFraming == read_chunk(1) \/ read_end(1) \/ sink_return(1)

SpecFraming == InitFraming /\ [][NextFraming]_vars

\* Streams of well-shaped updates: single objects, the empty object, and
\* arrays of them.
ShapeTexts ==
    { <<"D", "[a,{},ab]", "N", "N", "D", "{}", "N", "N", "D", "ab", "N", "N">>,
      <<"D", "[b,a]", "N", "N", "D", "S", "b", "N", "N">> }

InitShapes ==
    /\ client = 1
    /\ made = 1
    /\ last = NoCall
    /\ wire \in UNION { Chunkings(text) : text \in ShapeTexts }
    /\ readers = <<[NewReader("s1") EXCEPT !.thread = 1]>>
    /\ threads = <<Reading(1)>>
    /\ streams = <<[sid |-> "s1", reader |-> 1]>>
    /\ caller = Idle
    /\ lastCall = NoRegistryCall
    /\ hook \in Hooks
    /\ manager = TRUE
    /\ workers = <<>>
    /\ parse = NoParse

SpecShapes == InitShapes /\ [][NextFraming]_vars

\* Streams with one frame that is not an update, followed by a valid frame:
\* text that is not JSON, a number, an object whose value is a number, and
\* an array with a number among its elements.
MalformedTexts ==
    { <<"D", "x", "N", "N", "D", "a", "N", "N">>,
      <<"D", "5", "N", "N", "D", "a", "N", "N">>,
      <<"D", "{a:5}", "N", "N", "D", "a", "N", "N">>,
      <<"D", "[a,5,b]", "N", "N", "D", "b", "N", "N">> }

InitMalformed ==
    /\ client = 1
    /\ made = 1
    /\ last = NoCall
    /\ wire \in UNION { Chunkings(text) : text \in MalformedTexts }
    /\ readers = <<[NewReader("s1") EXCEPT !.thread = 1]>>
    /\ threads = <<Reading(1)>>
    /\ streams = <<[sid |-> "s1", reader |-> 1]>>
    /\ caller = Idle
    /\ lastCall = NoRegistryCall
    /\ hook \in Hooks
    /\ manager = TRUE
    /\ workers = <<>>
    /\ parse = NoParse

SpecMalformed == InitMalformed /\ [][NextFraming]_vars

(***************************************************************************)
(* The Client: connect, disconnect and start_stream on the calling thread, *)
(* over a Transport that starts closed, with the reader threads.           *)
(***************************************************************************)
ClientWires == { << <<"D", "a", "N", "N">> >> }

ConnectReplies ==
    {r \in Replies : \/ r.net = "connect_error"
                     \/ r.net = "response" /\ r.status \in {200, 401}
                                           /\ r.body = "json"}

\* Client.connect(): Transport.open(), then a new SubscriptionManager in
\* place of the one there was; nothing after open() when it raises.
connect(reply) ==
    /\ caller.pc = "idle"
    /\ transport_open(reply)
    /\ IF last'.err = NoError
       THEN manager' = TRUE /\ streams' = <<>>
       ELSE UNCHANGED <<manager, streams>>
    /\ lastCall' = CallOf("connect", "none", Tracked)
    /\ UNCHANGED <<wire, readers, threads, caller, hook, workers, parse>>

\* Client.disconnect(), after stop_all() has returned:
\* self._sub_manager = None and self._transport.close().
disconnect_close ==
    /\ streams' = stop_all_clear(streams)
    /\ manager' = FALSE
    /\ transport_close

\* Client.disconnect(): stop_all() when there is a manager, up to the
\* first join that blocks.
disconnect ==
    /\ caller.pc = "idle"
    /\ lastCall' = CallOf("disconnect", "none", Tracked)
    /\ LET rs == [i \in 1..Len(streams) |-> streams[i].reader]
           res == StopFrom(readers, IF manager THEN rs ELSE <<>>)
       IN /\ readers' = res.readers
          /\ caller' = res.caller
          /\ IF res.caller.pc = "idle" THEN disconnect_close
             ELSE UNCHANGED <<streams, manager, client, made, last>>
    /\ UNCHANGED <<wire, threads, hook, workers, parse>>

\* A join inside disconnect() returns; the rest of stop_all() follows.
disconnect_join_return ==
    LET res == StopFrom([readers EXCEPT ![caller.r] = stop_joined(@)],
                        caller.todo)
    IN /\ readers' = res.readers
       /\ caller' = res.caller
       /\ IF res.caller.pc = "idle" THEN disconnect_close
          ELSE UNCHANGED <<streams, manager, client, made, last>>
       /\ UNCHANGED <<wire, threads, lastCall, hook, workers, parse>>

disconnect_join_exited ==
    /\ caller.pc = "join"
    /\ ~Alive(readers[caller.r].thread)
    /\ disconnect_join_return

disconnect_join_timeout ==
    /\ caller.pc = "join"
    /\ Alive(readers[caller.r].thread)
    /\ disconnect_join_return

\* Client.start_stream(subscription_id): add() when there is a manager.
start_stream(sid) ==
    \/ manager /\ add(sid)
    \/ /\ ~manager
       /\ caller.pc = "idle"
       /\ lastCall' = CallOf("start_stream", sid, {})
       /\ UNCHANGED <<wire, readers, threads, streams, caller>>
       /\ UNCHANGED transportVars
       /\ UNCHANGED clientVars

InitClient ==
    /\ client = 0
    /\ made = 0
    /\ last = NoCall
    /\ wire \in ClientWires
    /\ readers = <<>>
    /\ threads = <<>>
    /\ streams = <<>>
    /\ caller = Idle
    /\ lastCall = NoRegistryCall
    /\ hook = "ok"
    /\ manager = FALSE
    /\ workers = <<>>
    /\ parse = NoParse

NextClient ==
    \/ \E reply \in ConnectReplies : connect(reply)
    \/ disconnect
    \/ disconnect_join_exited
    \/ disconnect_join_timeout
    \/ \E sid \in Sids : start_stream(sid)
    \/ \E t \in 1..Len(threads), reply \in StreamReplies : run_open(t, reply)
    \/ \E t \in 1..Len(threads) : read_chunk(t)
    \/ \E t \in 1..Len(threads) : read_end(t)
    \/ \E t \in 1..Len(threads) : read_fail(t)
    \/ \E t \in 1..Len(threads) : sink_return(t)

SpecClient == InitClient /\ [][NextClient]_vars

\* What the server answers to the requests of subscribe(): a JSON object
\* (with the subscriptionId), a server error, or nothing in time.
SubscribeReplies ==
    {r \in Replies : \/ r.net = "timeout"
                     \/ r.net = "response" /\ r.status \in {200, 500}
                                           /\ r.body = "json"}

\* The requests of Client.subscribe() in order: POST /subscriptions, POST
\* .../register and, after the stream was started, GET /subscriptions/{id}.
\* `out` is the outcome of the request that raised, or of the last one,
\* and `started` whether step 3 (start the stream) was reached.
subscribe_calls(c, create, register, fetch) ==
    IF call(c, create).err # NoError
    THEN [out |-> call(c, create), reply |-> create, started |-> FALSE]
    ELSE IF call(c, register).err # NoError
    THEN [out |-> call(c, register), reply |-> register, started |-> FALSE]
    ELSE [out |-> call(c, fetch), reply |-> fetch, started |-> TRUE]

\* Client.subscribe(element_ids) when the server names the subscription
\* `sid`: create, register, self._sub_manager.add(sid) when there is a
\* manager, fetch.  An exception of a request leaves the method as it is:
\* subscribe() has no try, so what add() did stays.
subscribe(sid, create, register, fetch) ==
    /\ caller.pc = "idle"
    /\ LET res == subscribe_calls(client, create, register, fetch) IN
       /\ last' = Call("subscribe", client # 0, res.reply, res.out)
       /\ IF res.started /\ manager /\ ~add_present(sid)
          THEN /\ Len(readers) < MaxReaders
               /\ LET r == Len(readers) + 1
                      started == start(Append(readers, NewReader(sid)),
                                       threads, r)
                  IN /\ streams' = Append(Without(streams, sid),
                                          [sid |-> sid, reader |-> r])
                     /\ readers' = started.readers
                     /\ threads' = started.threads
          ELSE UNCHANGED <<readers, threads, streams>>
    /\ lastCall' = CallOf("subscribe", sid, Tracked)
    /\ UNCHANGED <<wire, caller, client, made>>
    /\ UNCHANGED clientVars

\* A connected Client: connect() has opened the Transport and made the
\* manager.
InitSubscribe ==
    /\ client = 1
    /\ made = 1
    /\ last = NoCall
    /\ wire \in ClientWires
    /\ readers = <<>>
    /\ threads = <<>>
    /\ streams = <<>>
    /\ caller = Idle
    /\ lastCall = NoRegistryCall
    /\ hook = "ok"
    /\ manager = TRUE
    /\ workers = <<>>
    /\ parse = NoParse

NextSubscribe ==
    \/ \E sid \in Sids, create \in SubscribeReplies,
          register \in SubscribeReplies, fetch \in SubscribeReplies :
            subscribe(sid, create, register, fetch)
    \/ \E t \in 1..Len(threads), reply \in StreamReplies : run_open(t, reply)
    \/ \E t \in 1..Len(threads) : read_chunk(t)
    \/ \E t \in 1..Len(threads) : read_end(t)
    \/ \E t \in 1..Len(threads) : sink_return(t)

SpecSubscribe == InitSubscribe /\ [][NextSubscribe]_vars

(***************************************************************************)
(* Other threads.  A worker is a thread of the process other than the      *)
(* calling thread; it runs one method a statement at a time, so that the   *)
(* statements of two threads interleave as the interpreter allows.         *)
(***************************************************************************)
MaxWorkers == 2

Workers == 1..Len(workers)

\* `held` is the httpx.Client that _ensure_open returned to the worker,
\* `sentClosed` whether the worker has called send() on a client that
\* Transport.close() had closed.
IdleWorker ==
    [pc |-> "idle", op |-> "none", sid |-> "none", r |-> 0, held |-> 0,
     err |-> NoError, sentClosed |-> FALSE]

Constructing == {w \in Workers : workers[w].pc = "construct"}

\* SubscriptionManager.add, line by line: the test for an entry ...
add_check(w, sid) ==
    /\ workers[w].pc = "idle"
    /\ Len(readers) + Cardinality(Constructing) < MaxReaders
    /\ workers' = [workers EXCEPT ![w] =
            IF add_present(sid) THEN [@ EXCEPT !.op = "add", !.sid = sid]
            ELSE [@ EXCEPT !.pc = "construct", !.op = "add", !.sid = sid]]
    /\ UNCHANGED <<hook, manager, parse>>
    /\ UNCHANGED readerVars
    /\ UNCHANGED transportVars

\* ... the new SSEStream stored under the id, in place of the entry the id
\* has by now, if any ...
add_store(w) ==
    /\ workers[w].pc = "construct"
    /\ LET r == Len(readers) + 1
           sid == workers[w].sid
       IN /\ readers' = Append(readers, NewReader(sid))
          /\ streams' = IF HasEntry(streams, sid)
                        THEN [streams EXCEPT ![EntryOf(streams, sid)].reader = r]
                        ELSE Append(streams, [sid |-> sid, reader |-> r])
          /\ workers' = [workers EXCEPT ![w].pc = "start", ![w].r = r]
    /\ UNCHANGED <<wire, threads, caller, lastCall, hook, manager, parse>>
    /\ UNCHANGED transportVars

\* ... and stream.start().
add_start(w) ==
    /\ workers[w].pc = "start"
    /\ LET started == start(readers, threads, workers[w].r)
       IN /\ readers' = started.readers
          /\ threads' = started.threads
    /\ workers' = [workers EXCEPT ![w].pc = "idle", ![w].r = 0]
    /\ UNCHANGED <<wire, streams, caller, lastCall, hook, manager, parse>>
    /\ UNCHANGED transportVars

InitRegistryRace ==
    /\ client = 1
    /\ made = 1
    /\ last = NoCall
    /\ wire \in ClientWires
    /\ readers = <<>>
    /\ threads = <<>>
    /\ streams = <<>>
    /\ caller = Idle
    /\ lastCall = NoRegistryCall
    /\ hook = "ok"
    /\ manager = TRUE
    /\ workers = [w \in 1..MaxWorkers |-> IdleWorker]
    /\ parse = NoParse

NextRegistryRace ==
    \/ \E w \in Workers, sid \in Sids : add_check(w, sid)
    \/ \E w \in Workers : add_store(w)
    \/ \E w \in Workers : add_start(w)
    \/ \E sid \in Sids : remove(sid)
    \/ stop_all
    \/ join_exited
    \/ join_timeout
    \/ \E t \in 1..Len(threads), reply \in StreamReplies : run_open(t, reply)
    \/ \E t \in 1..Len(threads) : read_chunk(t)
    \/ \E t \in 1..Len(threads) : read_end(t)
    \/ \E t \in 1..Len(threads) : read_fail(t)
    \/ \E t \in 1..Len(threads) : sink_return(t)

SpecRegistryRace == InitRegistryRace /\ [][NextRegistryRace]_vars

\* Transport.get / post / put / delete / stream_get, line by line:
\* client = self._ensure_open() ...
ensure(w, m) ==
    /\ workers[w].pc = "idle"
    /\ workers' = [workers EXCEPT ![w] =
            IF ensure_open(client) # NoError
            THEN [@ EXCEPT !.op = m, !.err = ensure_open(client), !.held = 0]
            ELSE [@ EXCEPT !.pc = "send", !.op = m, !.err = NoError,
                           !.held = client]]
    /\ UNCHANGED <<hook, manager, parse>>
    /\ UNCHANGED readerVars
    /\ UNCHANGED transportVars

\* ... and client.request(...) or client.send(...) on the client held,
\* whatever self._client is by now.
send(w, reply) ==
    /\ workers[w].pc = "send"
    /\ LET held == workers[w].held
           out == IF workers[w].op = "stream_get"
                  THEN stream_get(held, reply) ELSE call(held, reply)
       IN workers' = [workers EXCEPT ![w] =
            [@ EXCEPT !.pc = "idle",
                      !.err = IF client = held THEN out.err
                              ELSE Error("RuntimeError", 0, "raw"),
                      !.sentClosed = @ \/ client # held]]
    /\ UNCHANGED <<hook, manager, parse>>
    /\ UNCHANGED readerVars
    /\ UNCHANGED transportVars

InitTransportRace ==
    /\ client = 0
    /\ made = 0
    /\ last = NoCall
    /\ wire = <<>>
    /\ readers = <<>>
    /\ threads = <<>>
    /\ streams = <<>>
    /\ caller = Idle
    /\ lastCall = NoRegistryCall
    /\ hook = "ok"
    /\ manager = FALSE
    /\ workers = [w \in 1..MaxWorkers |-> IdleWorker]
    /\ parse = NoParse

NextTransportRace ==
    \/ \E reply \in ConnectReplies : open(reply)
    \/ close
    \/ \E w \in Workers, m \in Methods \cup {"stream_get"} : ensure(w, m)
    \/ \E w \in Workers, reply \in StreamReplies : send(w, reply)

SpecTransportRace == InitTransportRace /\ [][NextTransportRace]_vars

(***************************************************************************)
(* models.py: the parsers of value payloads.  A JSON object is a function  *)
(* from its keys, a JSON array a sequence.                                 *)
(***************************************************************************)
MaxDepth == 2

\* The entries a "data" list can hold: a full triple and a bare value.
FullVQT ==
    [k \in {"value", "quality", "timestamp"} |->
        CASE k = "value" -> "72.5" [] k = "quality" -> "Good" [] OTHER -> "t1"]

BareVQT == [k \in {"value"} |-> "1"]

DataLists == { <<>>, <<FullVQT>>, <<BareVQT, FullVQT>> }

\* Nothing, or one of S.
Optional(S) == { <<>> } \cup { <<v>> : v \in S }

\* The object with the key "data" when d is given, and the keys "x" and
\* "y" when x and y are.
Object(d, x, y) ==
    [k \in {c \in {"data"} : d # <<>>} \cup {c \in {"x"} : x # <<>>}
            \cup {c \in {"y"} : y # <<>>} |->
        CASE k = "data" -> d[1] [] k = "x" -> x[1] [] OTHER -> y[1]]

\* The value payloads nested at most `depth` deep.
RECURSIVE Payloads(_)
Payloads(depth) ==
    { Object(d, x, y) :
        d \in Optional(DataLists),
        x \in IF depth = 0 THEN { <<>> } ELSE Optional(Payloads(depth - 1)),
        y \in IF depth = 0 THEN { <<>> } ELSE Optional(Payloads(0)) }

\* dict.get(key, default)
get(dict, key, default) == IF key \in DOMAIN dict THEN dict[key] ELSE default

\* VQT.from_dict(data)
VQT_from_dict(data) ==
    [value |-> get(data, "value", "None"),
     quality |-> get(data, "quality", ""),
     timestamp |-> get(data, "timestamp", "")]

\* The mutant of from_response: a child is parsed under the element id of
\* its parent instead of its own key.
RECURSIVE from_response_parent_id(_, _)
from_response_parent_id(element_id, value_data) ==
    [element_id |-> element_id,
     data |-> [i \in 1..Len(get(value_data, "data", <<>>)) |->
                  VQT_from_dict(get(value_data, "data", <<>>)[i])],
     children |-> [k \in DOMAIN value_data \ {"data"} |->
                      from_response_parent_id(element_id, value_data[k])]]

\* LastKnownValue.from_response(element_id, value_data)
RECURSIVE from_response(_, _)
from_response(element_id, value_data) ==
    [element_id |-> element_id,
     data |-> [i \in 1..Len(get(value_data, "data", <<>>)) |->
                  VQT_from_dict(get(value_data, "data", <<>>)[i])],
     children |-> [k \in DOMAIN value_data \ {"data"} |->
                      from_response(k, value_data[k])]]

\* A caller hands a payload to LastKnownValue.from_response.
Parse ==
    /\ ~parse.done
    /\ parse' = [parse EXCEPT !.record = from_response("root", parse.payload),
                              !.done = TRUE]
    /\ UNCHANGED <<hook, manager, workers>>
    /\ UNCHANGED readerVars
    /\ UNCHANGED transportVars

InitParse ==
    /\ client = 0
    /\ made = 0
    /\ last = NoCall
    /\ wire = <<>>
    /\ readers = <<>>
    /\ threads = <<>>
    /\ streams = <<>>
    /\ caller = Idle
    /\ lastCall = NoRegistryCall
    /\ hook = "ok"
    /\ manager = FALSE
    /\ workers = <<>>
    /\ parse \in [payload : Payloads(MaxDepth), record : {"none"}, done : {FALSE}]

NextParse == Parse

SpecParse == InitParse /\ [][NextParse]_vars

\* The body of the loop of ValueChange.from_stream_event for one item of
\* event_data.items(): the triples of value_data.get("data", []) and, as
\* children, the dict of the other keys with the values they have in
\* value_data.
ValueChange_of(element_id, value_data) ==
    [element_id |-> element_id,
     data |-> [i \in 1..Len(get(value_data, "data", <<>>)) |->
                  VQT_from_dict(get(value_data, "data", <<>>)[i])],
     children |-> [k \in DOMAIN value_data \ {"data"} |-> value_data[k]]]

\* The Stream Reader hands the update map {"root": payload} to
\* ValueChange.from_stream_event; `record` is the one change it returns.
ParseChange ==
    /\ ~parse.done
    /\ parse' = [parse EXCEPT !.record = ValueChange_of("root", parse.payload),
                              !.done = TRUE]
    /\ UNCHANGED <<hook, manager, workers>>
    /\ UNCHANGED readerVars
    /\ UNCHANGED transportVars

NextChange == ParseChange

SpecChange == InitParse /\ [][NextChange]_vars

is_open == client # 0

(***************************************************************************)
(* Claims about the Transport.                                             *)
(***************************************************************************)

\* C1: when open() has failed (its liveness probe raised, whatever the
\* cause), the Transport is closed when the error reaches the caller.
C1_FailedOpenLeavesClosed ==
    (last.op = "open" /\ last.err # NoError) => ~is_open

\* C1 witness: an open() whose probe was sent and answered 500 has raised
\* ServerError and the Transport is closed.
C1_Witness ==
    /\ last.op = "open"
    /\ last.sent
    /\ last.err = Error("ServerError", 500, "http")
    /\ ~is_open

\* C2: a request operation (get, post, put, delete, stream_get) called while
\* the Transport is closed fails with the not-connected error, sends nothing
\* and leaves the Transport closed.
C2_ClosedCallsFail ==
    (last.op \in Methods \cup {"stream_get"} /\ ~last.open0)
        => /\ last.err = NotConnected
           /\ ~last.sent
           /\ ~is_open

\* C2 witness: a stream_get made after an open() and a close().
C2_Witness ==
    /\ last.op = "stream_get"
    /\ ~last.open0
    /\ made > 0

\* The error kind the spec's mapping gives a status code >= 400, with
\* ServerError for the range lo..hi of codes.
KindFor(c, lo, hi) ==
    IF c \in {401, 403} THEN "AuthenticationError"
    ELSE IF c = 404 THEN "NotFoundError"
    ELSE IF lo <= c /\ c <= hi THEN "ServerError"
    ELSE "I3XError"

\* A request of the calling thread was answered with a status code >= 400.
AnsweredWithError ==
    /\ last.op \in Methods
    /\ last.reply.net = "response"
    /\ last.reply.status >= 400

ThreadIds == 1..Len(threads)

\* The threads of reader r that have not exited.
UnitsAlive(r) == {t \in ThreadIds : threads[t].reader = r /\ Alive(t)}

\* C4: an add(s) that directly follows an add(s) finds the entry of the
\* first one and changes nothing: no reader is constructed, no thread is
\* started, the tracked reader is the one the first add made, its stop
\* event is still clear, and the call returns (nothing is raised).
C4_AddTwiceIsIdempotent ==
    [][\A sid \in Sids :
          (lastCall.op = "add" /\ lastCall.sid = sid /\ add(sid))
              => /\ readers' = readers
                 /\ threads' = threads
                 /\ streams' = streams
                 /\ Cardinality({i \in 1..Len(streams') : streams'[i].sid = sid}) = 1
                 /\ Cardinality({r \in 1..Len(readers') :
                        readers'[r].sid = sid /\ r \in Tracked'}) = 1
                 /\ caller'.pc = "idle"]_vars

\* C4 witness: add(s) was called twice in a row and the one reader made is
\* running.
C4_Witness ==
    /\ lastCall.op = "add"
    /\ lastCall.rep
    /\ Len(readers) = 1
    /\ is_running(1)

\* C5: at most one reader thread is alive for any one subscription id.
C5_AtMostOneUnitPerId ==
    \A sid \in Sids :
        Cardinality({t \in ThreadIds :
            Alive(t) /\ readers[threads[t].reader].sid = sid}) <= 1

\* C6: a reader thread never calls on_event after a stop() of its reader
\* has returned.
C6_NoSinkAfterStop == \A t \in ThreadIds : ~threads[t].late

\* C7: when stop_all() has returned the registry is empty and is_running is
\* false for every reader it tracked.
C7_StopAllLeavesNothing ==
    (lastCall.op = "stop_all" /\ caller.pc = "idle")
        => /\ streams = <<>>
           /\ \A r \in lastCall.tracked : ~is_running(r)

\* C7 witness: stop_all() has returned after stopping two readers, one of
\* whose joins timed out.
C7_Witness ==
    /\ lastCall.op = "stop_all"
    /\ caller.pc = "idle"
    /\ Cardinality(lastCall.tracked) = 2
    /\ \E r \in lastCall.tracked : UnitsAlive(r) # {}

\* C8: a stop() that is waiting in its join always gets out of it, whether
\* or not the reader thread ever exits.
C8_StopReturns == (caller.pc = "join") ~> (caller.pc = "idle")

\* C8 witness: a stop() has returned while the thread it waited for is
\* still alive.
C8_Witness ==
    /\ caller.pc = "idle"
    /\ \E r \in 1..Len(readers) : readers[r].returned /\ UnitsAlive(r) # {}

\* C9: a stop() on a reader none of whose threads is alive, made after an
\* earlier stop() or on a reader that was never started, changes nothing
\* but the stop event, which ends set: the thread handle and every thread
\* (so every callback count) stay as they are and the call returns at once.
C9_SecondStopIsNoop ==
    [][(/\ Stop(1)
        /\ UnitsAlive(1) = {}
        /\ lastCall.op = "stop" \/ threads = <<>>)
          => /\ threads' = threads
             /\ readers'[1].thread = readers[1].thread
             /\ readers'[1].sid = readers[1].sid
             /\ readers'[1].stop
             /\ caller' = caller]_vars

\* C9 witness: stop() was called twice in a row on a reader whose thread
\* had been started and has exited.
C9_Witness ==
    /\ lastCall.op = "stop"
    /\ lastCall.rep
    /\ caller.pc = "idle"
    /\ threads # <<>>
    /\ UnitsAlive(1) = {}

\* The reconstructed data text of a frame.
DataText(event_text) == join(DataLines(SplitLines(event_text)))

\* A frame that carries data which is not valid JSON.
InvalidFrame(event_text) ==
    /\ DataLines(SplitLines(event_text)) # <<>>
    /\ ~json_loads(DataText(event_text)).ok

\* A frame that carries a JSON object.
ValidFrame(event_text) ==
    /\ DataLines(SplitLines(event_text)) # <<>>
    /\ json_loads(DataText(event_text)).ok

\* The batches of the valid frames among `frames`, in order.
RECURSIVE ValidBatches(_)
ValidBatches(frames) ==
    IF frames = <<>> THEN <<>>
    ELSE (IF ValidFrame(Head(frames))
          THEN <<from_stream_event(json_loads(DataText(Head(frames))).value)>>
          ELSE <<>>) \o ValidBatches(Tail(frames))

\* C10: a frame whose data text is not valid JSON is skipped: the batches a
\* thread has handed to on_event are exactly those of the valid frames it
\* has taken off its buffer, those after an invalid frame included, and no
\* thread has ended (or called on_error) because of a frame.
C10_InvalidFrameSkipped ==
    \A t \in ThreadIds :
        /\ threads[t].delivered = ValidBatches(threads[t].frames)
        /\ threads[t].cause # "decode"
        /\ threads[t].errs > 0 => threads[t].cause \in {"open", "read"}

\* C10 witness: a thread has taken an invalid frame and then a valid one,
\* delivered the valid one and called on_error never.
C10_Witness ==
    \E t \in ThreadIds :
        /\ Len(threads[t].frames) >= 2
        /\ InvalidFrame(threads[t].frames[1])
        /\ ValidFrame(threads[t].frames[2])
        /\ threads[t].delivered # <<>>
        /\ threads[t].errs = 0


\* The text a wire carries, whatever its chunks.
RECURSIVE Concat(_)
Concat(chunks) ==
    IF chunks = <<>> THEN <<>> ELSE Head(chunks) \o Concat(Tail(chunks))

IsPrefix(p, q) == Len(p) <= Len(q) /\ SubSeq(q, 1, Len(p)) = p

\* The decode loop run on a text that arrives as one chunk, the stop event
\* clear, up to the point where the thread asks for the next chunk.
RECURSIVE RunToRead(_)
RunToRead(th) ==
    IF th.pc = "sink" THEN RunToRead(on_event_returned(th, NewReader("s1")))
    ELSE th

OneChunk(text) ==
    RunToRead(Drain([Reading(1) EXCEPT !.pos = 1, !.buf = buffer_append(@, text)],
                    FALSE, FALSE))

\* C11: however the stream text is cut into chunks, the batches delivered
\* to the sink are those delivered when the whole text arrives as one
\* chunk: at every moment a prefix of them, and all of them once the stream
\* has been read to its end.
C11_ChunkingIndependent ==
    \A t \in ThreadIds :
        LET whole == OneChunk(Concat(wire)).delivered IN
        /\ IsPrefix(threads[t].delivered, whole)
        /\ threads[t].cause = "end" => threads[t].delivered = whole

\* A text read to its end whose frame separator was cut between its two
\* newlines, two batches delivered.
C11_Witness ==
    /\ Len(wire) = MaxChunks
    /\ \E i \in 1..(Len(wire) - 1) :
          /\ wire[i][Len(wire[i])] = "N"
          /\ Len(wire[i]) > 1 /\ wire[i][Len(wire[i]) - 1] # "N"
          /\ wire[i + 1][1] = "N"
    /\ threads[1].cause = "end"
    /\ Len(threads[1].delivered) >= 2

\* The frames of a text, in the order they stand on the wire.
RECURSIVE WireFrames(_)
WireFrames(text) ==
    IF ~HasSep(text) THEN <<>>
    ELSE <<SplitHead(text)>> \o WireFrames(SplitRest(text))

\* The records of a batch stand in the order of the keys of its payload.
InKeyOrder(batch) ==
    /\ Len(batch) = Len(Keys(batch[1].of))
    /\ \A i \in 1..Len(batch) :
          batch[i].of = batch[1].of /\ batch[i].id = Keys(batch[1].of)[i]

\* C12: a reader takes frames in wire order and hands the sink the batches
\* of its valid frames in that order, each batch in key order; when an
\* on_value_change callback is registered it has been called exactly once
\* for each record handed to the sink, in the same order.
C12_InOrder ==
    \A t \in ThreadIds :
        /\ IsPrefix(threads[t].frames, WireFrames(Concat(wire)))
        /\ threads[t].delivered = ValidBatches(threads[t].frames)
        /\ \A i \in 1..Len(threads[t].delivered) :
              InKeyOrder(threads[t].delivered[i])
        /\ hook # "none" => threads[t].dispatched = Concat(threads[t].delivered)

\* A two-record batch and a later batch have been dispatched, three calls.
C12_Witness ==
    /\ hook = "ok"
    /\ Len(wire) > 1
    /\ Len(threads[1].delivered) = 2
    /\ Len(threads[1].delivered[1]) = 2
    /\ Len(threads[1].dispatched) = 3

UnitsOf(r) == {t \in ThreadIds : threads[t].reader = r}

FailureCauses == {"open", "read", "decode", "sink"}

\* C13: a thread whose run failed while the stop event of its reader was
\* clear (stream_get raised, or reading or decoding raised) has called
\* on_error exactly once with a StreamError and has exited; a failed
\* stream_get is reported whatever the stop event; no thread calls on_error
\* twice, none runs on after calling it, and no reader gets a second thread
\* without a new start().
C13_FailureReportedOnce ==
    /\ \A t \in ThreadIds :
          /\ threads[t].errs <= 1
          /\ threads[t].errs = 1 =>
                threads[t].pc = "exited" /\ threads[t].cause \in FailureCauses
          /\ threads[t].cause = "open" => threads[t].errs = 1
          /\ (threads[t].cause \in FailureCauses
                /\ ~readers[threads[t].reader].stop) =>
                threads[t].errs = 1 /\ threads[t].pc = "exited"
    /\ \A r \in 1..Len(readers) : Cardinality(UnitsOf(r)) <= 1

\* A read failed after a batch was delivered, the stop event clear, and
\* another reader failed to open its stream; each reported once.
C13_Witness ==
    \E t, u \in ThreadIds :
        /\ threads[t].cause = "read" /\ threads[t].errs = 1
        /\ Len(threads[t].delivered) >= 1
        /\ ~readers[threads[t].reader].stop
        /\ threads[u].cause = "open" /\ threads[u].errs = 1

\* C14: a thread that has exited holds no open response: the response it
\* got from stream_get is closed, whether the loop ended on the stop event,
\* at the end of the stream or with an exception; a thread has no response
\* only when stream_get raised.
C14_ResponseClosedOnExit ==
    \A t \in ThreadIds :
        threads[t].pc = "exited" =>
            /\ threads[t].resp # "open"
            /\ threads[t].resp = "none" <=> threads[t].cause = "open"

\* One thread of the reader left the loop on an exception, a later one on
\* the stop event, both with the response closed.
C14_Witness ==
    \E t, u \in ThreadIds :
        /\ threads[t].cause = "read" /\ threads[t].resp = "closed"
        /\ threads[u].cause = "stop" /\ threads[u].resp = "closed"

\* C15: once disconnect() has closed the Transport and returned, no reader
\* thread is alive.
C15_NoReaderOutlivesConnection ==
    (lastCall.op = "disconnect" /\ caller.pc = "idle") =>
        \A t \in ThreadIds : ~Alive(t)

\* C16: when on_value_change raises for every record, the exception stays
\* in Client._handle_value_changes: no thread ends because of the sink and
\* none calls on_error, every record of every batch handed to the sink has
\* been passed to the callback, and a thread that reaches the end of the
\* stream has taken every frame of the text and delivered every valid one.
C16_CallbackErrorsContained ==
    hook = "raises" =>
        \A t \in ThreadIds :
            /\ threads[t].cause # "sink"
            /\ threads[t].errs = 0
            /\ threads[t].dispatched = Concat(threads[t].delivered)
            /\ threads[t].cause = "end" =>
                  /\ threads[t].frames = WireFrames(Concat(wire))
                  /\ threads[t].delivered = ValidBatches(WireFrames(Concat(wire)))

\* The callback raised for both records of a batch and for the record of a
\* later batch, and the thread read on to the end of the stream.
C16_Witness ==
    /\ hook = "raises"
    /\ threads[1].cause = "end"
    /\ Len(threads[1].delivered) = 2
    /\ Len(threads[1].delivered[1]) = 2
    /\ Len(threads[1].dispatched) = 3

\* The readers registered for an id that have been started and not stopped.
StartedFor(sid) ==
    {r \in 1..Len(readers) :
        readers[r].sid = sid /\ readers[r].thread # 0 /\ ~readers[r].stop}

\* C17: add, remove and stop_all behave as if one ran after the other: at
\* most one reader started for an id has not been stopped, and every
\* reader that was started is in the map or has had stop() called on it.
C17_RegistrySerialized ==
    /\ \A sid \in Sids : Cardinality(StartedFor(sid)) <= 1
    /\ \A r \in 1..Len(readers) :
          readers[r].thread # 0 => (r \in Tracked \/ readers[r].stop)

\* C18: no thread has called send() or request() on an httpx.Client after
\* Transport.close() had closed it.
C18_NoSendOnClosed == \A w \in Workers : ~workers[w].sentClosed

\* Thread t ends in this step because its run failed.
Fails(t) ==
    /\ threads[t].pc # "exited"
    /\ threads'[t].pc = "exited"
    /\ threads'[t].cause \in FailureCauses

\* C19: the step in which one reader thread fails (stream_get raised, the
\* read raised, decoding raised) changes that thread only: every other
\* thread, every reader object and the map of the registry are as before,
\* and the Transport is still open with the same client.
C19_FailureIsolated ==
    [][\A t \in ThreadIds :
          Fails(t) =>
              /\ \A u \in ThreadIds \ {t} : threads'[u] = threads[u]
              /\ Len(threads') = Len(threads)
              /\ readers' = readers
              /\ streams' = streams
              /\ client' = client /\ client' # 0]_vars

\* One reader has failed in a read; the other reader, in the map and with
\* a buffer in use, is still running, and the Transport is open.
C19_Witness ==
    \E t, u \in ThreadIds :
        /\ threads[t].cause = "read" /\ threads[t].errs = 1
        /\ Alive(u) /\ threads[u].pos > 0
        /\ Len(threads[u].delivered) >= 1
        /\ threads[u].reader \in Tracked
        /\ client # 0

\* C20: open() on an open Transport sends no probe, keeps the httpx.Client
\* it has (none is constructed) and leaves is_open true, raising nothing.
C20_OpenWhenOpenIsNoop ==
    [][\A reply \in Replies :
          (is_open /\ open(reply)) =>
              /\ ~last'.sent
              /\ last'.err = NoError
              /\ client' = client
              /\ made' = made]_vars

\* open() has returned on a Transport that was open, at a point where a
\* further httpx.Client could still have been constructed.
C20_Witness ==
    /\ last.op = "open"
    /\ last.open0
    /\ is_open
    /\ made < MaxClients

\* C21: close() raises nothing and leaves the Transport closed; on a closed
\* Transport it changes nothing (no client, none constructed); and open()
\* on a Transport closed by close() succeeds again when its probe does.
C21_CloseIdempotent ==
    /\ [](last.op = "close" => (~is_open /\ last.err = NoError /\ ~last.sent))
    /\ [][close => (~is_open' /\ made' = made
                      /\ (~is_open => client' = client))]_vars
    /\ [][\A reply \in Replies :
            (last.op = "close" /\ open(reply) /\ request(reply).err = NoError)
                => (is_open' /\ last'.err = NoError)]_vars

\* close() has returned on a Transport that was already closed by an
\* earlier close() of an open Transport.
C21_Witness ==
    /\ last.op = "close"
    /\ ~last.open0
    /\ made > 0
    /\ ~is_open

\* The error class a request raises for what the network answers, as the
\* Transport documents it ("none": the payload is returned).
ProbeFailure(reply) ==
    CASE reply.net = "connect_error" -> "ConnectionError"
      [] reply.net = "timeout" -> "TimeoutError"
      [] reply.net = "http_error" -> "I3XError"
      [] reply.status >= 400 -> KindFor(reply.status, 500, 999)
      [] reply.status # 204 /\ reply.body = "badjson" -> "JSONDecodeError"
      [] OTHER -> "none"

\* C22 as stated: an open() that fails fails with a ConnectionError.
C22_AsStated ==
    (last.op = "open" /\ last.err # NoError) => last.err.cls = "ConnectionError"

\* C22, amended: an open() whose probe fails fails with the error the
\* probe raised: a ConnectionError exactly when the server could not be
\* reached, and otherwise the TimeoutError, AuthenticationError,
\* NotFoundError, ServerError or I3XError of the probe's answer.
C22_ProbeErrorPropagates ==
    (last.op = "open" /\ last.sent) =>
        /\ last.err.cls = ProbeFailure(last.reply)
        /\ last.err.cls = "ConnectionError" <=> last.reply.net = "connect_error"
        /\ last.err # NoError => ~is_open

\* open() has failed with the ServerError of a probe answered 500.
C22_Witness ==
    /\ last.op = "open"
    /\ last.reply.net = "response" /\ last.reply.status = 500
    /\ last.err.cls = "ServerError"
    /\ ~is_open

\* C23: a request answered with a status code outside 200..299 raises an
\* error and returns no payload.
C23_NonSuccessRaises ==
    (/\ last.op \in Methods
     /\ last.sent
     /\ last.reply.net = "response"
     /\ last.reply.status \notin 200..299) =>
        (last.err # NoError /\ last.value = "none")

\* What the network answers a request that cannot be completed.
NetFailure(reply) ==
    CASE reply.net = "connect_error" -> "ConnectionError"
      [] reply.net = "timeout" -> "TimeoutError"
      [] OTHER -> "none"

\* C24: a request or a stream_get sent on an open Transport that meets a
\* connect failure raises ConnectionError, one that exceeds its deadline
\* raises TimeoutError, and the Transport is open afterwards.
C24_NetworkErrorsMapped ==
    (/\ last.op \in Methods \cup {"stream_get"}
     /\ last.sent
     /\ last.reply.net \in {"connect_error", "timeout"}) =>
        /\ last.err.cls = NetFailure(last.reply)
        /\ is_open

\* A stream_get has met its deadline and raised TimeoutError; the
\* Transport is still open.
C24_Witness ==
    /\ last.op = "stream_get"
    /\ last.reply.net = "timeout"
    /\ last.err.cls = "TimeoutError"
    /\ is_open

\* C25: remove(sid) leaves no entry for sid and every other entry as it
\* was; the reader sid had, if any, has its stop event set and no other
\* reader changes; no thread is touched; with no entry for sid nothing
\* changes at all and the call does not wait.
C25_RemoveFrame ==
    [][\A sid \in Sids :
          remove(sid) =>
              /\ streams' = SelectSeq(streams, LAMBDA e : e.sid # sid)
              /\ threads' = threads
              /\ Len(readers') = Len(readers)
              /\ \A r \in 1..Len(readers) :
                    IF HasEntry(streams, sid)
                         /\ streams[EntryOf(streams, sid)].reader = r
                    THEN readers'[r].stop /\ readers'[r].sid = sid
                    ELSE readers'[r] = readers[r]
              /\ ~HasEntry(streams, sid) =>
                    (streams' = streams /\ readers' = readers
                        /\ caller' = caller)]_vars

\* remove("s1") has stopped the reader of "s1" while the reader of "s2"
\* is tracked, not stopped, and its thread alive.
C25_Witness ==
    /\ lastCall.op = "remove" /\ lastCall.sid = "s1"
    /\ HasEntry(streams, "s2") /\ ~HasEntry(streams, "s1")
    /\ \E r \in 1..Len(readers) : readers[r].sid = "s1" /\ readers[r].stop
    /\ LET r2 == streams[EntryOf(streams, "s2")].reader
       IN ~readers[r2].stop /\ is_running(r2)

\* C26: is_running of a reader is true exactly when a thread started for
\* the reader has not exited.
C26_IsRunningIffAlive ==
    \A r \in 1..Len(readers) : is_running(r) <=> UnitsAlive(r) # {}

\* The decoded triple of one entry of a "data" list.
TripleOf(raw, vqt) ==
    /\ vqt.value = (IF "value" \in DOMAIN raw THEN raw["value"] ELSE "None")
    /\ vqt.quality = (IF "quality" \in DOMAIN raw THEN raw["quality"] ELSE "")
    /\ vqt.timestamp = (IF "timestamp" \in DOMAIN raw THEN raw["timestamp"] ELSE "")

\* The record is the parse of the payload under the element id.
RECURSIVE IsRecordOf(_, _, _)
IsRecordOf(rec, element_id, payload) ==
    LET raw == IF "data" \in DOMAIN payload THEN payload["data"] ELSE <<>> IN
    /\ rec.element_id = element_id
    /\ Len(rec.data) = Len(raw)
    /\ \A i \in 1..Len(raw) : TripleOf(raw[i], rec.data[i])
    /\ DOMAIN rec.children = DOMAIN payload \ {"data"}
    /\ \A k \in DOMAIN rec.children :
          IsRecordOf(rec.children[k], k, payload[k])

\* C27: the record LastKnownValue.from_response returns for a payload has
\* the element id it was given, one triple per entry of the "data" list in
\* list order (none when the key is absent), and as children exactly the
\* other keys, each the record of its own payload under its key.
C27_SnapshotParsed ==
    parse.done => IsRecordOf(parse.record, "root", parse.payload)

\* A payload with data, a child that has a child of its own, and a child
\* without data has been parsed.
C27_Witness ==
    /\ parse.done
    /\ DOMAIN parse.payload = {"data", "x", "y"}
    /\ "x" \in DOMAIN parse.payload["x"]
    /\ "data" \notin DOMAIN parse.payload["y"]
    /\ Len(parse.record.children["x"].children["x"].data) = 2


\* The non-empty elements of a JSON array, in array order.
RECURSIVE NonEmpty(_)
NonEmpty(items) ==
    IF items = <<>> THEN <<>>
    ELSE (IF Keys(Head(items)) # <<>> THEN <<Head(items)>> ELSE <<>>)
         \o NonEmpty(Tail(items))

\* The batch of an update object: one record per top-level key.
BatchOf(obj) == [i \in 1..Len(Keys(obj)) |-> [id |-> Keys(obj)[i], of |-> obj]]

\* The sink invocations a frame of well-shaped updates calls for: one for a
\* single object with at least one key, one per non-empty element for an
\* array, in array order.
RECURSIVE SinkCalls(_)
SinkCalls(frames) ==
    IF frames = <<>> THEN <<>>
    ELSE LET payload == json_loads(DataText(Head(frames))).value
             objs == IF payload \in Lists THEN NonEmpty(Items(payload))
                     ELSE IF payload \in Dicts /\ Len(Keys(payload)) >= 1
                     THEN <<payload>>
                     ELSE <<>>
         IN [i \in 1..Len(objs) |-> BatchOf(objs[i])] \o SinkCalls(Tail(frames))

\* C28: a frame whose payload is one object with k >= 1 element ids causes
\* exactly one call of on_event, with k records in key order; a frame whose
\* payload is an array of such objects causes one call per non-empty
\* element, in array order: the batches a thread has handed over and those
\* it still holds for the frame it is in are the ones its frames call for,
\* and none is held once the callback has returned from the last of them.
C28_OneCallPerUpdate ==
    \A t \in ThreadIds :
        /\ threads[t].delivered \o threads[t].todo = SinkCalls(threads[t].frames)
        /\ \A i \in 1..Len(threads[t].delivered) :
               /\ threads[t].delivered[i] # <<>>
               /\ InKeyOrder(threads[t].delivered[i])
        /\ threads[t].pc # "sink" => threads[t].todo = <<>>

\* C28 witness: a thread has read the array of "a", the empty object and
\* "ab", the empty object alone and "ab" alone, and handed over three
\* batches: "a" and "ab" of the array, then the two records of "ab".
C28_Witness ==
    \E t \in ThreadIds :
        /\ threads[t].pc = "exited"
        /\ Len(threads[t].frames) = 3
        /\ DataText(threads[t].frames[1]) = <<"[a,{},ab]">>
        /\ threads[t].delivered =
               <<BatchOf("a"), BatchOf("ab"), BatchOf("ab")>>
        /\ Len(threads[t].delivered[3]) = 2


\* C29: the stop flag is looked at before each buffered frame is processed:
\* once stop() has set the flag of a reader, its thread hands no further
\* frame to on_event, frames already complete in its buffer included.
C29_NoFrameAfterStopFlag ==
    [][\A t \in ThreadIds :
          (t \in 1..Len(threads') /\ readers[threads[t].reader].stop)
              => threads'[t].delivered = threads[t].delivered]_vars

\* C30: a malformed frame, one that is JSON of the wrong shape included, is
\* skipped: no thread ends because of a frame, on_error is not called for
\* it, and a thread that has read the stream to its end has handed over the
\* valid frame that followed.
C30_MalformedFrameLocal ==
    \A t \in ThreadIds :
        /\ threads[t].cause # "decode"
        /\ threads[t].errs = 0
        /\ threads[t].cause = "end" =>
               \E i \in 1..Len(threads[t].delivered) :
                   threads[t].delivered[i] =
                       BatchOf(DataText(threads[t].frames[Len(threads[t].frames)])[1])


\* C31: a value-change record has the snapshot shape: each key of the
\* payload other than "data" is a child that is itself a parsed snapshot
\* (element id, triples, children) of the payload under that key, not the
\* payload as it came.
C31_ChangeChildrenParsed ==
    parse.done =>
        /\ DOMAIN parse.record.children = DOMAIN parse.payload \ {"data"}
        /\ \A k \in DOMAIN parse.record.children :
              /\ DOMAIN parse.record.children[k] = {"element_id", "data", "children"}
              /\ IsRecordOf(parse.record.children[k], k, parse.payload[k])


\* C32: a response stream_get got from the transport's client is returned
\* to the caller or closed before stream_get raises: no call of stream_get
\* that ended with an error has left its response open.
C32_NoHandleLeftOpen ==
    last.op = "stream_get" =>
        (last.handle = "open" => last.err = NoError /\ last.value = "response")


\* C33: whatever connect(), start_stream() and disconnect() calls were made,
\* connect() on a connected Client included, every reader the Client has
\* started and not stopped is tracked by the registry the Client has now,
\* so that disconnect() reaches it.
C33_StartedReadersTracked ==
    \A r \in 1..Len(readers) :
        ~readers[r].stop =>
            /\ manager
            /\ \E i \in 1..Len(streams) : streams[i].reader = r


\* C34: when subscribe() raises, at whichever of its requests, no reader it
\* made for the new subscription id is left in the registry or running.
C34_FailedSubscribeLeavesNoReader ==
    (last.op = "subscribe" /\ lastCall.op = "subscribe" /\ last.err # NoError) =>
        \A r \in 1..Len(readers) :
            (readers[r].sid = lastCall.sid /\ r \notin lastCall.tracked) =>
                /\ r \notin Tracked
                /\ ~is_running(r)


\* C35: once stop() has set the stop event of a reader, the reader's thread
\* does not call on_error, whether it was opening the stream or in the
\* decode loop when the event was set.
C35_NoErrorSinkAfterStop ==
    [][\A t \in ThreadIds :
          (t \in 1..Len(threads') /\ readers[threads[t].reader].stop)
              => threads'[t].errs = threads[t].errs]_vars

====
